---- MODULE Spec2Model ----
(***************************************************************************)
(* Model of the Logseq-to-Obsidian tools:                                  *)
(*   - "Logseq to Obsidian.py": the Reference Migrator (Scanner = phase    *)
(*     one, Header Converter, Rewriter = phase two, main);                 *)
(*   - the header-property script (process_markdown_file): the Alias       *)
(*     Normalizer.                                                         *)
(*                                                                         *)
(* Text is modelled as a sequence of tokens.  A token is a string standing *)
(* for a run of characters that the code never cuts: " " is one blank,     *)
(* "-" a dash, "::" the property separator, "((" and "))" the reference    *)
(* parentheses, "x"/"y" a whole 36-character identifier, "T" a word, ...   *)
(* A character outside ASCII is written by its code point: "U+FF0C" is the *)
(* fullwidth comma, "U+FF1A" the fullwidth colon.                          *)
(* A line is a token sequence without its line terminator; a file is a     *)
(* sequence of lines.                                                      *)
(***************************************************************************)
EXTENDS Integers, Sequences, FiniteSets, TLC

VARIABLES
    order,      \* main: markdown_files, the traversal order used by both phases
    files,      \* the vault on disk: file name -> sequence of lines
    orig,       \* history: the vault as it was before the run
    id_db,      \* the module-level dictionary id_db: identifier -> link text
    phase,      \* main's position: "scan", "rewrite", "done"
    idx,        \* position of the running phase's for-loop in order
    scanned,    \* history: files whose Scanner step has been taken
    rewritten,  \* history: files whose Rewriter step has been taken
    clean,      \* history: no file operation has failed so far
    selected,   \* history: per file, <<identifier, declaration line, content line>> chosen by the Scanner
    fused,      \* history: per file, <<identifier, original line>> replaced by the Rewriter
    hc_in,      \* Header Converter alone: the argument lines
    hc_out,     \* Header Converter alone: the returned record
    al_file,    \* Alias Normalizer: the aliases field of the file's header
    al_new,     \* Alias Normalizer: new_aliases of the last call
    al_rets,    \* Alias Normalizer: return values of the calls so far
    al_hist     \* Alias Normalizer: the aliases field after each call so far

migVars == <<order, files, orig, id_db, phase, idx, scanned, rewritten, clean, selected, fused>>
hcVars == <<hc_in, hc_out>>
alVars == <<al_file, al_new, al_rets, al_hist>>
vars == <<migVars, hcVars, alVars>>

(***************************************************************************)
(* Bounds of the model.                                                    *)
(***************************************************************************)
MaxLines == 3
MaxHeaderLines == 3
MaxAliases == 2
MaxRuns == 2

(***************************************************************************)
(* Python string operations, on token sequences.                           *)
(***************************************************************************)
Uuids == {"x", "y"}
NoMatch == "none"

RECURSIVE LStrip(_)
LStrip(s) == IF s # <<>> /\ Head(s) = " " THEN LStrip(Tail(s)) ELSE s

RECURSIVE RStrip(_)
RStrip(s) == IF s # <<>> /\ s[Len(s)] = " " THEN RStrip(SubSeq(s, 1, Len(s) - 1)) ELSE s

Strip(s) == RStrip(LStrip(s))

StartsWith(s, p) == Len(s) >= Len(p) /\ SubSeq(s, 1, Len(p)) = p

Contains(s, t) == \E i \in 1..Len(s) : s[i] = t

\* index of the first occurrence of token t in s, 0 when there is none
IndexOf(s, t) == IF Contains(s, t) THEN CHOOSE i \in 1..Len(s) : s[i] = t /\ \A k \in 1..(i - 1) : s[k] # t ELSE 0

\* s.split(sep): the pieces of s between the occurrences of the tokens in seps
RECURSIVE Split(_, _)
Split(s, seps) ==
    IF \E i \in 1..Len(s) : s[i] \in seps
    THEN LET i == CHOOSE i \in 1..Len(s) : s[i] \in seps /\ \A k \in 1..(i - 1) : s[k] \notin seps
         IN <<SubSeq(s, 1, i - 1)>> \o Split(SubSeq(s, i + 1, Len(s)), seps)
    ELSE <<s>>

\* [v.strip() for v in pieces if v.strip()]
RECURSIVE StripNonEmpty(_)
StripNonEmpty(pieces) ==
    IF pieces = <<>> THEN <<>>
    ELSE (IF Strip(Head(pieces)) # <<>> THEN <<Strip(Head(pieces))>> ELSE <<>>) \o StripNonEmpty(Tail(pieces))

DashSpace == <<"-", " ">>

\* UUID_PATTERN.search(line): 'id::', blanks, an identifier; the leftmost match
DeclEnd(s, i) ==
    IF i + 1 <= Len(s) /\ s[i] = "id" /\ s[i + 1] = "::"
          /\ \E j \in (i + 2)..Len(s) : s[j] \in Uuids /\ \A k \in (i + 2)..(j - 1) : s[k] = " "
    THEN CHOOSE j \in (i + 2)..Len(s) : s[j] \in Uuids /\ \A k \in (i + 2)..(j - 1) : s[k] = " "
    ELSE 0

UuidSearch(s) ==
    IF \E i \in 1..Len(s) : DeclEnd(s, i) # 0
    THEN LET i == CHOOSE i \in 1..Len(s) : DeclEnd(s, i) # 0 /\ \A k \in 1..(i - 1) : DeclEnd(s, k) = 0
         IN s[DeclEnd(s, i)]
    ELSE NoMatch

\* BLOCK_REF_PATTERN matches at the head of s: '((' identifier '))'
RefAtHead(s) == Len(s) >= 3 /\ s[1] = "((" /\ s[2] \in Uuids /\ s[3] = "))"

\* BLOCK_REF_PATTERN.fullmatch(s)
RefFullMatch(s) == Len(s) = 3 /\ RefAtHead(s)

HasRef(s) == \E i \in 1..Len(s) : RefAtHead(SubSeq(s, i, Len(s)))

(***************************************************************************)
(* sanitize_text_for_linking: character substitution, token by token.      *)
(***************************************************************************)
SanitizeToken(t) ==
    CASE t = "**" -> "U+2605"
      [] t = "*" -> "U+2605"
      [] t = ":" -> "U+FF1A"
      [] t = "::" -> "U+FF1AU+FF1A"
      [] t = "?" -> "U+FF1F"
      [] t = "<" -> "U+3008"
      [] t = ">" -> "U+3009"
      [] t = "\"" -> "U+201C"
      [] t = "|" -> "U+FF5C"
      [] t = "\\" -> "U+3001"
      [] t = "/" -> "-"
      [] OTHER -> t

sanitize_text_for_linking(text) == [i \in 1..Len(text) |-> SanitizeToken(text[i])]

(***************************************************************************)
(* convert_logseq_properties_to_yaml.  properties is an insertion-ordered  *)
(* dict: a sequence of [key, values] records, a repeated key keeps its     *)
(* place and takes the new values.                                         *)
(***************************************************************************)
PropsPut(props, key, values) ==
    IF \E k \in 1..Len(props) : props[k].key = key
    THEN [k \in 1..Len(props) |-> IF props[k].key = key THEN [key |-> key, values |-> values] ELSE props[k]]
    ELSE Append(props, [key |-> key, values |-> values])

\* line_stripped.split('::', 1): the part before the first '::' and the part after it
KeyPart(ls) == SubSeq(ls, 1, IndexOf(ls, "::") - 1)
ValuePart(ls) == SubSeq(ls, IndexOf(ls, "::") + 1, Len(ls))

\* lines 103-110 for one in-block line: the dict and the count after it
PropertyLine(ls, i, props, count) ==
    LET key == Strip(KeyPart(ls))
        value_str == IF Contains(ls, "::") THEN Strip(ValuePart(ls)) ELSE <<>>
        key2 == IF key = <<"alias">> THEN <<"aliases">> ELSE key
        values == StripNonEmpty(Split(value_str, {","}))
    IN IF key = <<>>
       THEN [props |-> props, count |-> count]
       ELSE [props |-> PropsPut(props, key2, values), count |-> i]

IsPropertyShape(ls) == Contains(ls, "::") /\ ~StartsWith(ls, DashSpace)

\* the for-loop of lines 87-110 from line i on (1-based); early = the return of line 100
RECURSIVE HeaderLoop(_, _, _, _, _)
HeaderLoop(lines, i, props, count, in_block) ==
    IF i > Len(lines)
    THEN [early |-> FALSE, props |-> props, count |-> count]
    ELSE LET ls == Strip(lines[i])
             after == PropertyLine(ls, i, props, count)
         IN IF IsPropertyShape(ls)
            THEN IF (i = 1) \/ in_block \/ (Strip(lines[i - 1]) = <<>>)
                 THEN HeaderLoop(lines, i + 1, after.props, after.count, TRUE)
                 ELSE [early |-> FALSE, props |-> props, count |-> count]
            ELSE IF ls = <<>> /\ in_block
                 THEN HeaderLoop(lines, i + 1, props, count, in_block)
                 ELSE IF in_block
                      THEN [early |-> FALSE, props |-> props, count |-> count]
                      ELSE [early |-> TRUE, props |-> props, count |-> count]

YamlItems(values) == [k \in 1..Len(values) |-> <<" ", " ", "-", " ", "\"">> \o values[k] \o <<"\"">>]

RECURSIVE YamlBody(_)
YamlBody(props) ==
    IF props = <<>> THEN <<>>
    ELSE <<Head(props).key \o <<":">>>> \o YamlItems(Head(props).values) \o YamlBody(Tail(props))

\* lines: the returned sequence; offset: len(yaml_lines); consumed: property_lines_count
convert_logseq_properties_to_yaml(lines) ==
    LET r == HeaderLoop(lines, 1, <<>>, 0, FALSE)
        yaml_lines == <<<<"---">>>> \o YamlBody(r.props) \o <<<<"---">>>>
    IN IF r.early \/ r.props = <<>>
       THEN [lines |-> lines, offset |-> 0, consumed |-> 0]
       ELSE [lines |-> yaml_lines \o SubSeq(lines, r.count + 1, Len(lines)),
             offset |-> Len(yaml_lines), consumed |-> r.count]

(***************************************************************************)
(* phase_one_build_db: the Scanner.                                        *)
(***************************************************************************)
IsPageLine(p) == StartsWith(p, <<"hl-page", "::">>)
IsTypeOrColorLine(p) == StartsWith(p, <<"ls-type", "::">>) \/ StartsWith(p, <<"hl-color", "::">>)

\* prev_line.split('::')[1].strip()
PageValue(p) == Strip(Split(p, {"::"})[2])

\* the backward walk of lines 139-147 from line j down: content_line_index
\* (0 for the code's -1) and page_num (<<>> for None and for the empty string)
RECURSIVE WalkBack(_, _, _)
WalkBack(lines, j, page_num) ==
    IF j < 1
    THEN [idx |-> 0, page |-> page_num]
    ELSE LET prev_line == Strip(lines[j])
         IN IF IsPageLine(prev_line)
            THEN WalkBack(lines, j - 1, PageValue(prev_line))
            ELSE IF IsTypeOrColorLine(prev_line)
                 THEN WalkBack(lines, j - 1, page_num)
                 ELSE [idx |-> j, page |-> page_num]

DbPut(db, u, text) == [k \in (DOMAIN db) \cup {u} |-> IF k = u THEN text ELSE db[k]]

\* lines 133-160 for line i: the database after it
ScanLine(lines, i, db) ==
    LET uuid_val == UuidSearch(lines[i])
        w == WalkBack(lines, i - 1, <<>>)
        content_text == Strip(lines[w.idx])
        temp_content == IF StartsWith(content_text, DashSpace)
                        THEN Strip(SubSeq(content_text, 3, Len(content_text)))
                        ELSE content_text
        final_content == IF w.page # <<>> THEN temp_content \o <<" page-">> \o w.page ELSE temp_content
    IN IF uuid_val = NoMatch \/ w.idx = 0 \/ RefFullMatch(temp_content)
       THEN db
       ELSE DbPut(db, uuid_val, sanitize_text_for_linking(final_content))

RECURSIVE ScanLines(_, _, _)
ScanLines(lines, i, db) ==
    IF i > Len(lines) THEN db ELSE ScanLines(lines, i + 1, ScanLine(lines, i, db))

\* history: what the backward walk chose for each declaration line of the file
Selections(lines) ==
    {<<UuidSearch(lines[i]), i, WalkBack(lines, i - 1, <<>>).idx>> :
        i \in {k \in 1..Len(lines) : UuidSearch(lines[k]) # NoMatch}}

(***************************************************************************)
(* phase_two_process_and_write: the Rewriter.                              *)
(***************************************************************************)
\* BLOCK_REF_PATTERN.sub(lambda m: f"[[{id_db.get(m.group(1), m.group(0))}]]", line)
RECURSIVE SubRefs(_, _)
SubRefs(s, db) ==
    IF s = <<>> THEN <<>>
    ELSE IF RefAtHead(s)
         THEN <<"[[">> \o (IF s[2] \in DOMAIN db THEN db[s[2]] ELSE SubSeq(s, 1, 3)) \o <<"]]">>
                  \o SubRefs(SubSeq(s, 4, Len(s)), db)
         ELSE <<Head(s)>> \o SubRefs(Tail(s), db)

\* number of leading blanks of s
RECURSIVE LeadingBlanks(_)
LeadingBlanks(s) == IF s # <<>> /\ Head(s) = " " THEN 1 + LeadingBlanks(Tail(s)) ELSE 0

\* re.match(r'^(\s*-\s*)', line): blanks, one dash, blanks; "" when there is no
\* match.  The fence "---" starts with a dash character, which alone is matched.
LinePrefix(s) ==
    LET n == LeadingBlanks(s)
        rest == SubSeq(s, n + 2, Len(s))
    IN IF n < Len(s) /\ s[n + 1] = "-"
       THEN SubSeq(s, 1, n + 1) \o SubSeq(rest, 1, LeadingBlanks(rest))
       ELSE IF n < Len(s) /\ s[n + 1] = "---"
            THEN SubSeq(s, 1, n) \o <<"-">>
            ELSE <<>>

IsSidecarLine(l) == IsPageLine(Strip(l)) \/ IsTypeOrColorLine(Strip(l))

\* the indices added by the while-loop of lines 196-199 started at j
RECURSIVE SidecarRun(_, _)
SidecarRun(ltp, j) ==
    IF j <= Len(ltp) /\ IsSidecarLine(ltp[j]) THEN {j} \cup SidecarRun(ltp, j + 1) ELSE {}

\* the while-loop of lines 177-200 from index i on (1-based); fus records the
\* <<identifier, index>> pairs of the lines replaced at line 193
RECURSIVE RewriteLoop(_, _, _, _, _)
RewriteLoop(ltp, del, fus, i, db) ==
    IF i > Len(ltp)
    THEN [lines |-> ltp, del |-> del, fus |-> fus]
    ELSE LET subbed == [ltp EXCEPT ![i] = SubRefs(ltp[i], db)]
             uuid_val == IF i + 1 <= Len(ltp) THEN UuidSearch(subbed[i + 1]) ELSE NoMatch
             new_content_line == LinePrefix(subbed[i]) \o <<"[[">> \o db[uuid_val] \o <<"]]">>
         IN IF uuid_val # NoMatch /\ uuid_val \in DOMAIN db
            THEN RewriteLoop([subbed EXCEPT ![i] = new_content_line],
                             del \cup {i + 1} \cup SidecarRun(subbed, i + 2),
                             fus \cup {<<uuid_val, i>>}, i + 1, db)
            ELSE RewriteLoop(subbed, del, fus, i + 1, db)

\* [line for idx, line in enumerate(lines) if idx not in del]
RECURSIVE Survivors(_, _, _)
Survivors(lines, del, i) ==
    IF i > Len(lines) THEN <<>>
    ELSE (IF i \in del THEN <<>> ELSE <<lines[i]>>) \o Survivors(lines, del, i + 1)

\* lines 172-202: final_lines, and for the history the replaced lines by their
\* index in the file as read (0 for a line of the generated header)
TransformFile(lines, db) ==
    LET conv == convert_logseq_properties_to_yaml(lines)
        r == RewriteLoop(conv.lines, {}, {}, 1, db)
        OrigIndex(i) == IF i > conv.offset THEN i - conv.offset + conv.consumed ELSE 0
    IN [final_lines |-> Survivors(r.lines, r.del, 1),
        fused |-> {<<p[1], OrigIndex(p[2])>> : p \in r.fus}]

(***************************************************************************)
(* The vaults of the model.                                                *)
(***************************************************************************)
FileNames == {"a.md", "b.md"}

LineChoices ==
    { <<>>,                                  \* a blank line
      <<"-", " ", "T">>,                     \* - T
      <<"-", " ", "((", "y", "))">>,         \* - ((y))
      <<"id", "::", " ", "x">>,              \* id:: x
      <<"-", " ", "id", "::", " ", "x">>,    \* - id:: x
      <<"hl-page", "::", " ", "5">>,         \* hl-page:: 5
      <<"ls-type", "::", " ", "a">> }        \* ls-type:: a

SeqsUpTo(S, n) == UNION {[1..k -> S] : k \in 1..n}

\* a.md: every file of at most MaxLines lines
MainFiles == SeqsUpTo(LineChoices, MaxLines)

\* b.md: a file that refers to x, one that declares x, one that refers to y
OtherFiles ==
    { << <<"T", " ", "((", "x", "))">> >>,
      << <<"-", " ", "U", "*">>, <<"id", "::", " ", "x">> >>,
      << <<"T", " ", "((", "y", "))">> >> }

Orders == { <<"a.md", "b.md">>, <<"b.md", "a.md">> }

EmptyDb == [u \in {} |-> <<>>]

\* the tools that a specification does not run stay as they are
NotCalled == [lines |-> <<>>, offset |-> -1, consumed |-> -1]
migIdle ==
    /\ order = <<>> /\ files = <<>> /\ orig = <<>> /\ id_db = EmptyDb /\ phase = "idle" /\ idx = 0
    /\ scanned = {} /\ rewritten = {} /\ clean = TRUE /\ selected = <<>> /\ fused = <<>>
hcIdle == hc_in = <<>> /\ hc_out = NotCalled
alIdle == al_file = [kind |-> "absent", items |-> <<>>] /\ al_new = <<>> /\ al_rets = <<>> /\ al_hist = <<>>

Init ==
    /\ order \in Orders
    /\ \E a \in MainFiles, b \in OtherFiles : files = [f \in FileNames |-> IF f = "a.md" THEN a ELSE b]
    /\ orig = files
    /\ id_db = EmptyDb
    /\ phase = "scan"
    /\ idx = 1
    /\ scanned = {}
    /\ rewritten = {}
    /\ clean = TRUE
    /\ selected = [f \in FileNames |-> {}]
    /\ fused = [f \in FileNames |-> {}]
    /\ hcIdle
    /\ alIdle

(***************************************************************************)
(* main, lines 239-242: phase_one_build_db(markdown_files) returns, then   *)
(* phase_two_process_and_write(markdown_files) runs.                       *)
(***************************************************************************)
\* the for-loop of a phase has taken its last file
LoopEnds(i) == i = Len(order)

\* a Scanner that returns after its first file
AfterScanFirstFile(i) == [phase |-> "rewrite", idx |-> 1]

AfterScan(i) == IF LoopEnds(i) THEN [phase |-> "rewrite", idx |-> 1] ELSE [phase |-> "scan", idx |-> i + 1]
AfterRewrite(i) == IF LoopEnds(i) THEN [phase |-> "done", idx |-> 1] ELSE [phase |-> "rewrite", idx |-> i + 1]

\* phase one, one file: read, then lines 132-160
ScanFile ==
    /\ phase = "scan"
    /\ LET f == order[idx]
       IN /\ id_db' = ScanLines(files[f], 1, id_db)
          /\ selected' = [selected EXCEPT ![f] = Selections(files[f])]
          /\ scanned' = scanned \cup {f}
    /\ phase' = AfterScan(idx).phase
    /\ idx' = AfterScan(idx).idx
    /\ UNCHANGED <<order, files, orig, rewritten, clean, fused, hcVars, alVars>>

\* phase one, one file: open or readlines raises; lines 161-162 log it and go on
ScanReadFails ==
    /\ phase = "scan"
    /\ scanned' = scanned \cup {order[idx]}
    /\ clean' = FALSE
    /\ phase' = AfterScan(idx).phase
    /\ idx' = AfterScan(idx).idx
    /\ UNCHANGED <<order, files, orig, id_db, rewritten, selected, fused, hcVars, alVars>>

\* phase two, one file: read, transform, write (lines 169-204)
RewriteFile ==
    /\ phase = "rewrite"
    /\ LET f == order[idx]
           t == TransformFile(files[f], id_db)
       IN /\ files' = [files EXCEPT ![f] = t.final_lines]
          /\ fused' = [fused EXCEPT ![f] = t.fused]
          /\ rewritten' = rewritten \cup {f}
    /\ phase' = AfterRewrite(idx).phase
    /\ idx' = AfterRewrite(idx).idx
    /\ UNCHANGED <<order, orig, id_db, scanned, clean, selected, hcVars, alVars>>

\* phase two, one file: the read, or the open for writing, raises; lines 205-206
RewriteFailsBeforeWrite ==
    /\ phase = "rewrite"
    /\ rewritten' = rewritten \cup {order[idx]}
    /\ clean' = FALSE
    /\ phase' = AfterRewrite(idx).phase
    /\ idx' = AfterRewrite(idx).idx
    /\ UNCHANGED <<order, files, orig, id_db, scanned, selected, fused, hcVars, alVars>>

\* phase two, one file: open(file_path, 'w') has truncated the file and
\* writelines raises after k of the lines are on disk; lines 203-206
RewriteFailsDuringWrite ==
    /\ phase = "rewrite"
    /\ LET f == order[idx]
           t == TransformFile(files[f], id_db)
       IN \E k \in 0..(Len(t.final_lines) - 1) :
             files' = [files EXCEPT ![f] = SubSeq(t.final_lines, 1, k)]
    /\ rewritten' = rewritten \cup {order[idx]}
    /\ clean' = FALSE
    /\ phase' = AfterRewrite(idx).phase
    /\ idx' = AfterRewrite(idx).idx
    /\ UNCHANGED <<order, orig, id_db, scanned, selected, fused, hcVars, alVars>>

Next ==
    \/ ScanFile
    \/ ScanReadFails
    \/ RewriteFile
    \/ RewriteFailsBeforeWrite
    \/ RewriteFailsDuringWrite

Spec == Init /\ [][Next]_vars

(***************************************************************************)
(* The Header Converter on its own: one call on a bounded input.           *)
(***************************************************************************)
HeaderLineChoices ==
    { <<>>,                                          \* a blank line
      <<"a", "::", " ", "1">>,                       \* a:: 1
      <<"::", " ", "x">>,                            \* :: x      (an empty key)
      <<"alias", "::", " ", "A", ",", " ", "B">>,    \* alias:: A, B
      <<"-", " ", "T">>,                             \* - T
      <<"T">> }                                      \* T

InitHeader ==
    /\ hc_in \in SeqsUpTo(HeaderLineChoices, MaxHeaderLines)
    /\ hc_out = NotCalled
    /\ migIdle
    /\ alIdle

ConvertHeader ==
    /\ hc_out = NotCalled
    /\ hc_out' = convert_logseq_properties_to_yaml(hc_in)
    /\ UNCHANGED <<hc_in, migVars, alVars>>

NextHeader == ConvertHeader

SpecHeader == InitHeader /\ [][NextHeader]_vars

(***************************************************************************)
(* The Alias Normalizer: process_markdown_file on one file, called again   *)
(* on its own output.  Of the file only the aliases field of the header is *)
(* modelled.  An item of the list is [t, v]: a string ("str", its tokens), *)
(* an integer ("int", its digits) or a nested list of one-token strings    *)
(* ("list", its elements), as the YAML loader returns them.                *)
(***************************************************************************)
Str(v) == [t |-> "str", v |-> v]

RECURSIVE ListRepr(_)
ListRepr(v) ==
    IF v = <<>> THEN <<>>
    ELSE <<"'", Head(v), "'">> \o (IF Len(v) > 1 THEN <<",", " ">> ELSE <<>>) \o ListRepr(Tail(v))

\* str(item), which is what DoubleQuotedScalarString(item) holds
PyStr(item) == IF item.t = "list" THEN <<"[">> \o ListRepr(item.v) \o <<"]">> ELSE item.v

\* line 64: isinstance(item, str) and a comma of either script in it
NeedsSplit(item) == item.t = "str" /\ (Contains(item.v, "U+FF0C") \/ Contains(item.v, ","))

\* the separators of re.split(r'[U+FF0C|,]', item): a character class of three characters
SplitChars == {"U+FF0C", "|", ","}

\* line 66
SplitItem(item) ==
    LET pieces == StripNonEmpty(Split(item.v, SplitChars))
    IN [k \in 1..Len(pieces) |-> Str(pieces[k])]

\* lines 60-69: new_aliases
RECURSIVE NewAliases(_)
NewAliases(items) ==
    IF items = <<>> THEN <<>>
    ELSE (IF NeedsSplit(Head(items)) THEN SplitItem(Head(items)) ELSE <<Head(items)>>) \o NewAliases(Tail(items))

WasModified(items) == \E k \in 1..Len(items) : NeedsSplit(items[k])

\* lines 73-87: every alias as a double-quoted scalar, dumped; read back it is a string
Quoted(new_aliases) == [k \in 1..Len(new_aliases) |-> Str(PyStr(new_aliases[k]))]

AliasItemChoices ==
    { Str(<<"A">>),                                  \* "A"
      Str(<<"A", "U+FF0C", "B">>),                   \* "A" fullwidth-comma "B"
      Str(<<"A", ",", " ", "B">>),                   \* "A, B"
      Str(<<"A", "|", "B">>),                        \* "A|B"
      Str(<<"A", "|", "B", ",", "C">>),              \* "A|B,C"
      Str(<<",">>),                                  \* ","
      [t |-> "int", v |-> <<"5">>],                  \* 5
      [t |-> "list", v |-> <<"a", "b">>] }           \* [a, b]

AliasFields ==
    {[kind |-> "absent", items |-> <<>>], [kind |-> "scalar", items |-> <<Str(<<"A", ",", "B">>)>>]}
        \cup {[kind |-> "list", items |-> l] : l \in {<<>>} \cup SeqsUpTo(AliasItemChoices, MaxAliases)}

InitAlias ==
    /\ al_file \in AliasFields
    /\ al_new = <<>>
    /\ al_rets = <<>>
    /\ al_hist = <<al_file>>
    /\ migIdle
    /\ hcIdle

\* line 56-57: no aliases field, or one that is not a list
ProcessNoAliasList ==
    /\ Len(al_rets) < MaxRuns
    /\ al_file.kind # "list"
    /\ al_rets' = Append(al_rets, FALSE)
    /\ al_hist' = Append(al_hist, al_file)
    /\ UNCHANGED <<al_file, al_new, migVars, hcVars>>

\* lines 59-69 and 96: no item was split, the file is not written
ProcessUnmodified ==
    /\ Len(al_rets) < MaxRuns
    /\ al_file.kind = "list"
    /\ ~WasModified(al_file.items)
    /\ al_new' = NewAliases(al_file.items)
    /\ al_rets' = Append(al_rets, FALSE)
    /\ al_hist' = Append(al_hist, al_file)
    /\ UNCHANGED <<al_file, migVars, hcVars>>

\* lines 59-91: an item was split, the file is written
ProcessModified ==
    /\ Len(al_rets) < MaxRuns
    /\ al_file.kind = "list"
    /\ WasModified(al_file.items)
    /\ al_new' = NewAliases(al_file.items)
    /\ al_file' = [kind |-> "list", items |-> Quoted(NewAliases(al_file.items))]
    /\ al_rets' = Append(al_rets, TRUE)
    /\ al_hist' = Append(al_hist, al_file')
    /\ UNCHANGED <<migVars, hcVars>>

NextAlias ==
    \/ ProcessNoAliasList
    \/ ProcessUnmodified
    \/ ProcessModified

SpecAlias == InitAlias /\ [][NextAlias]_vars

(***************************************************************************)
(* The claims about the Reference Migrator, under Spec.                    *)
(***************************************************************************)
FullRun == phase = "done" /\ clean

LinesOf(file) == {file[i] : i \in 1..Len(file)}

\* the declarations of identifier u in the vault as it was: <<file, line>>
Declarations(u) == {<<f, i>> \in FileNames \X (1..MaxLines + 1) : i <= Len(orig[f]) /\ UuidSearch(orig[f][i]) = u}

\* C1: every Scanner step precedes every Rewriter step: a step that writes a
\* file or is a Rewriter step is taken only when every file has been scanned,
\* a Scanner step only when no file has been rewritten, and id_db does not
\* change once a file has been rewritten.
C1_PhaseBarrier ==
    [][ /\ (files' # files => scanned = FileNames)
        /\ (rewritten' # rewritten => scanned = FileNames)
        /\ (scanned' # scanned => rewritten = {})
        /\ (rewritten # {} => id_db' = id_db) ]_vars

\* a run that built a database, then rewrote every file and changed one
C1_Witness == FullRun /\ rewritten = FileNames /\ DOMAIN id_db # {} /\ files # orig

\* every reference token of the line names an identifier that is not in id_db
AllRefsUnresolved(line) ==
    /\ HasRef(line)
    /\ \A i \in 1..Len(line) : RefAtHead(SubSeq(line, i, Len(line))) => line[i + 1] \notin DOMAIN id_db

\* C2: a reference token whose identifier is not a key of id_db is left as it
\* is, with nothing added around it.  Stated where the token's position is
\* plain: in a file without any '::' line (no header, no declaration, no
\* sidecar), after a full run a line whose references are all unresolved is
\* the line that was read.
C2_UnresolvedReferenceUnchanged ==
    FullRun =>
        \A f \in FileNames :
            (\A i \in 1..Len(orig[f]) : ~Contains(orig[f][i], "::")) =>
                /\ Len(files[f]) = Len(orig[f])
                /\ \A i \in 1..Len(orig[f]) : AllRefsUnresolved(orig[f][i]) => files[f][i] = orig[f][i]

\* a content line '- T' of plain words
IsPlainContent(line) ==
    /\ StartsWith(line, DashSpace) /\ Len(line) > 2
    /\ \A k \in 3..Len(line) : line[k] \notin {"::", "((", "))", " ", "id", "hl-page"} \cup Uuids

\* C3: '- T', then 'id:: X', then 'hl-page:: N', X declared nowhere else and
\* referred to in another file: after a full run the defining file holds
\* '- [[T page-N]]' and neither the id:: nor the hl-page:: line, and the
\* referring line holds '[[T page-N]]' in place of the token.
C3_PageScenario ==
    FullRun =>
        \A f \in FileNames : \A i \in 1..Len(orig[f]) :
            LET T == SubSeq(orig[f][i], 3, Len(orig[f][i]))
                X == UuidSearch(orig[f][i + 1])
                N == PageValue(orig[f][i + 2])
                link == <<"[[">> \o T \o <<" page-">> \o N \o <<"]]">>
            IN (/\ i + 2 <= Len(orig[f])
                /\ IsPlainContent(orig[f][i])
                /\ orig[f][i + 1] = <<"id", "::", " ", X>> /\ X \in Uuids
                /\ Declarations(X) = {<<f, i + 1>>}
                /\ IsPageLine(orig[f][i + 2]) /\ N # <<>>
                /\ \E g \in FileNames \ {f} : \E l \in LinesOf(orig[g]) : l = <<"T", " ", "((", X, "))">>)
               =>
               (/\ DashSpace \o link \in LinesOf(files[f])
                /\ orig[f][i + 1] \notin LinesOf(files[f])
                /\ orig[f][i + 2] \notin LinesOf(files[f])
                /\ \A g \in FileNames \ {f} : \A k \in 1..Len(orig[g]) :
                       orig[g][k] = <<"T", " ", "((", X, "))">> => files[g][k] = <<"T", " ">> \o link)

\* the nearest line before line i that is neither blank nor a sidecar line, 0 when there is none
NearestContentLine(lines, i) ==
    LET C == {j \in 1..(i - 1) : Strip(lines[j]) # <<>> /\ ~IsSidecarLine(lines[j])}
    IN IF C = {} THEN 0 ELSE CHOOSE j \in C : \A k \in C : k <= j

\* C4: for every declaration line the Scanner selects the nearest preceding
\* line that is neither blank nor a sidecar line (blank lines are skipped),
\* and an identifier none of whose declarations has such a line gets no
\* database entry.
C4_ContentLineSkipsBlanks ==
    /\ \A f \in scanned : \A s \in selected[f] : s[3] = NearestContentLine(orig[f], s[2])
    /\ (phase # "scan" /\ clean) =>
           \A u \in Uuids :
               (\A d \in Declarations(u) : NearestContentLine(orig[d[1]], d[2]) = 0) => u \notin DOMAIN id_db

\* C5: a file is never partially written: whatever step of the cycle fails,
\* the file holds its complete original content or its complete transformed
\* content.
C5_NeverPartiallyWritten ==
    phase \in {"scan", "rewrite", "done"} =>
        \A f \in FileNames :
            \/ files[f] = orig[f]
            \/ files[f] = TransformFile(orig[f], id_db).final_lines

\* the sidecar lines that immediately follow the declarations of file f whose
\* identifier is (inDb) or is not (~inDb) in the database
SidecarsAfter(f, inDb) ==
    UNION {SidecarRun(orig[f], i + 1) :
              i \in {k \in 1..Len(orig[f]) : /\ UuidSearch(orig[f][k]) \in Uuids
                                             /\ (UuidSearch(orig[f][k]) \in DOMAIN id_db) = inDb}}

\* C9: after the Rewriter has processed the files no line declares an
\* identifier of the database and the sidecar lines that immediately followed
\* such a declaration are gone (told by their text, where no other line of
\* the file has it); every line that declared an identifier absent from the
\* database, and each of its sidecar lines, is still there.
C9_DeclarationsRemoved ==
    FullRun =>
        \A f \in FileNames :
            /\ \A k \in 1..Len(files[f]) : UuidSearch(files[f][k]) \notin DOMAIN id_db
            /\ \A j \in SidecarsAfter(f, TRUE) :
                   (\A k \in 1..Len(orig[f]) : orig[f][k] = orig[f][j] => k \in SidecarsAfter(f, TRUE))
                       => orig[f][j] \notin LinesOf(files[f])
            /\ \A i \in 1..Len(orig[f]) :
                   (UuidSearch(orig[f][i]) \in Uuids \ DOMAIN id_db) => orig[f][i] \in LinesOf(files[f])
            /\ \A j \in SidecarsAfter(f, FALSE) : orig[f][j] \in LinesOf(files[f])

\* C10: for every identifier declared exactly once and stored in the
\* database, the line the Rewriter replaces by the link is the line the
\* Scanner selected as its content line.
C10_SameContentLine ==
    FullRun =>
        \A f \in FileNames : \A s \in selected[f] :
            (Cardinality(Declarations(s[1])) = 1 /\ s[1] \in DOMAIN id_db) =>
                /\ <<s[1], s[3]>> \in fused[f]
                /\ \A p \in fused[f] : p[1] = s[1] => p[2] = s[3]

(***************************************************************************)
(* The claim about the Header Converter, under SpecHeader.                 *)
(***************************************************************************)
\* the leading lines that are property-shaped or blank
LeadingRun(lines) ==
    {n \in 1..Len(lines) : \A i \in 1..n : IsPropertyShape(Strip(lines[i])) \/ Strip(lines[i]) = <<>>}

\* 1-based index of the last line classified as part of the property block
LastInBlock(lines) ==
    LET B == {n \in LeadingRun(lines) : IsPropertyShape(Strip(lines[n]))}
    IN IF B = {} THEN 0 ELSE CHOOSE n \in B : \A k \in B : k <= n

\* C8: when a header is produced, the number of leading lines removed is the
\* index of the last line classified as in the block, a line with an empty
\* key included, and the lines after it follow the header unchanged.
C8_ConsumedIsLastInBlock ==
    (hc_out # NotCalled /\ hc_out.offset > 0) =>
        /\ Len(hc_in) - (Len(hc_out.lines) - hc_out.offset) = LastInBlock(hc_in)
        /\ SubSeq(hc_out.lines, hc_out.offset + 1, Len(hc_out.lines))
               = SubSeq(hc_in, LastInBlock(hc_in) + 1, Len(hc_in))

(***************************************************************************)
(* The claims about the Alias Normalizer, under SpecAlias.                 *)
(***************************************************************************)
HasComma(item) == item.t = "str" /\ (Contains(item.v, ",") \/ Contains(item.v, "U+FF0C"))

\* the trimmed non-empty pieces of the item cut at the commas alone
CommaPieces(item) ==
    LET pieces == StripNonEmpty(Split(item.v, {",", "U+FF0C"}))
    IN [k \in 1..Len(pieces) |-> Str(pieces[k])]

RECURSIVE CommaSplitList(_)
CommaSplitList(items) ==
    IF items = <<>> THEN <<>>
    ELSE (IF HasComma(Head(items)) THEN CommaPieces(Head(items)) ELSE <<Head(items)>>) \o CommaSplitList(Tail(items))

\* C6: the resulting alias list is, item by item and in order, the trimmed
\* non-empty pieces of an item cut at the commas and at no other character,
\* or the item itself; with no comma in any item the file is not written.
C6_SplitAtCommasOnly ==
    (Len(al_rets) = 1 /\ al_hist[1].kind = "list") =>
        /\ al_new = CommaSplitList(al_hist[1].items)
        /\ (\A k \in 1..Len(al_hist[1].items) : ~HasComma(al_hist[1].items[k])) =>
               (al_rets[1] = FALSE /\ al_file = al_hist[1])

\* C7: a second call on the output of the first reports no modification and
\* leaves the alias list as the first call left it.
C7_Idempotent ==
    Len(al_rets) >= 2 => (al_rets[2] = FALSE /\ al_hist[3] = al_hist[2])

====
